---- MODULE Spec2Model ----
(***************************************************************************)
(* A model of mace/tools/utils.py: the weight transplant load_foundations, *)
(* the AtomicNumberTable helpers, MetricsLogger.log and setup_logger.       *)
(*                                                                         *)
(* Tensors are records [shape, data] with the data kept flat in row-major  *)
(* order, as torch keeps it.  A tensor element is a triple <<v, p, q>>      *)
(* standing for the real number v / sqrt(p / q): load_foundations divides  *)
(* by (a / b) ** 0.5, which is exactly 1.0 when a = b and irrational in     *)
(* general, so the factor is kept symbolically as the reduced ratio p / q. *)
(* Python indices are 0-based and are kept 0-based here.                    *)
(***************************************************************************)
EXTENDS Integers, Sequences, FiniteSets

VARIABLES
    \* load_foundations: its arguments, the two model objects, its outcome
    model, model_foundations, table, load_readout, use_shift, use_scale, max_L,
    pc, exc, ret,
    \* get_atomic_number_table_from_zs: input, loop position, z_set, result
    zs_in, z_pos, z_set, z_table, z_pc,
    \* MetricsLogger: the file system and the calls made so far
    fs, ml_calls,
    \* setup_logger / the root logger
    handlers, filters, level, stdout, logfiles, n_setup, records

lfVars == <<model, model_foundations, table, load_readout, use_shift, use_scale,
            max_L, pc, exc, ret>>
ztVars == <<zs_in, z_pos, z_set, z_table, z_pc>>
mlVars == <<fs, ml_calls>>
lgVars == <<handlers, filters, level, stdout, logfiles, n_setup, records>>
vars == <<lfVars, ztVars, mlVars, lgVars>>

----------------------------------------------------------------------------
(* Bounds of the model *)

\* longest element table (foundation and target)
MaxSpecies == 2
\* longest input of get_atomic_number_table_from_zs
MaxLen == 3
\* MetricsLogger.log calls in a run
MaxCalls == 3
\* setup_logger calls in a run
MaxSetups == 2
\* logging calls on the root logger in a run
MaxRecords == 2

----------------------------------------------------------------------------
(* Sequences and arithmetic helpers *)

RECURSIVE Prod(_)
Prod(s) == IF s = <<>> THEN 1 ELSE Head(s) * Prod(Tail(s))

RECURSIVE Gcd(_, _)
Gcd(a, b) == IF b = 0 THEN a ELSE Gcd(b, a % b)

Min(a, b) == IF a < b THEN a ELSE b

InjectiveSeqs(S, n) ==
    UNION { { s \in [1..k -> S] : \A i, j \in 1..k : i # j => s[i] # s[j] } : k \in 0..n }

----------------------------------------------------------------------------
(* AtomicNumberTable (a Python list, 0-based) *)

\* list.index: the first position holding the value; -1 stands for ValueError
z_to_index(zs, atomic_number) ==
    IF \E i \in 1..Len(zs) : zs[i] = atomic_number
    THEN (CHOOSE i \in 1..Len(zs) :
            zs[i] = atomic_number /\ \A j \in 1..(i-1) : zs[j] # atomic_number) - 1
    ELSE -1

\* list.__getitem__: a negative index counts from the end
index_to_z(zs, index) == IF index >= 0 THEN zs[index + 1] ELSE zs[Len(zs) + index + 1]

\* a sort in descending order
RECURSIVE SortedDescending(_)
SortedDescending(S) ==
    IF S = {} THEN <<>>
    ELSE LET m == CHOOSE x \in S : \A y \in S : x >= y
         IN  <<m>> \o SortedDescending(S \ {m})

\* sorted(list(z_set)): the elements in ascending order, whatever order the
\* set is listed in
RECURSIVE SortedList(_)
SortedList(S) ==
    IF S = {} THEN <<>>
    ELSE LET m == CHOOSE x \in S : \A y \in S : x <= y
         IN  <<m>> \o SortedList(S \ {m})

----------------------------------------------------------------------------
(* Tensors *)

Numel(t) == Prod(t.shape)

\* a tensor whose element at flat position k is the symbolic value id * 100 + k
MkTensor(id, shape) ==
    [shape |-> shape, data |-> [k \in 1..Prod(shape) |-> <<id * 100 + k, 1, 1>>]]

\* a rescale that forgets the target's species count: x / a ** 0.5
DivSqrtElemNoTarget(x, a, b) == <<x[1], x[2] * a, x[3]>>

\* x / (a / b) ** 0.5 on one element; a / b is a Python float division, so only
\* the ratio counts, and a factor of exactly 1.0 returns x itself
DivSqrtElem(x, a, b) ==
    LET p == x[2] * a
        q == x[3] * b
        g == Gcd(p, q)
    IN  <<x[1], p \div g, q \div g>>

DivSqrt(t, a, b) ==
    [shape |-> t.shape, data |-> [k \in 1..Len(t.data) |-> DivSqrtElem(t.data[k], a, b)]]

\* Tensor.view / Tensor.reshape to an explicit shape: possible iff the sizes agree
CanReshape(t, shape) == Prod(shape) = Numel(t)
Reshape(t, shape) == [shape |-> shape, data |-> t.data]

\* Tensor.view(n, -1)
CanView2(t, n) == n > 0 /\ Numel(t) % n = 0
View2(t, n) == [shape |-> <<n, Numel(t) \div n>>, data |-> t.data]

Flatten(t) == [shape |-> <<Numel(t)>>, data |-> t.data]

\* t[:, ..., idx, ..., :] with the index list idx (0-based) on axis `axis` (1-based)
IndexAxis(t, axis, idx) ==
    LET n     == t.shape[axis]
        inner == Prod(SubSeq(t.shape, axis + 1, Len(t.shape)))
        outer == Prod(SubSeq(t.shape, 1, axis - 1))
        m     == Len(idx)
        shp   == [t.shape EXCEPT ![axis] = m]
    IN  [shape |-> shp,
         data  |-> [k \in 1..(outer * m * inner) |->
                      LET o == (k - 1) \div (m * inner)
                          r == (k - 1) % (m * inner)
                          j == r \div inner
                          i == r % inner
                      IN  t.data[o * (n * inner) + idx[j + 1] * inner + i + 1]]]

\* t[:n, :] on a 2-D tensor: a slice past the end is clipped, never an error
SliceRows(t, n) ==
    LET rows == Min(n, t.shape[1])
    IN  [shape |-> <<rows, t.shape[2]>>,
         data  |-> SubSeq(t.data, 1, rows * t.shape[2])]

----------------------------------------------------------------------------
(* The model objects load_foundations works on.  Only the attributes that  *)
(* load_foundations reads or writes are kept.  An architecture is          *)
(* [channels, lmax, num_radial, classes, bessel, ncontr]: the channel      *)
(* count, the spherical-harmonics order, the radial dimension, the class   *)
(* name of each interaction block, the class name of the radial basis and  *)
(* the number of contractions of products[0].                              *)

Residual == "RealAgnosticResidualInteractionBlock"
NonResidual == "RealAgnosticInteractionBlock"
\* a block class load_foundations does not name
OtherBlock == "RealAgnosticAttResidualInteractionBlock"
BesselBasis == "BesselBasis"
GaussianBasis == "GaussianBasis"

\* range(4): the layers of conv_tp_weights
NumConvLayers == 4
\* range(2): the products modules
NumProducts == 2
\* range(2): the weights of each contraction
NumWeights == 2

\* the size of an interaction block's skip_tp weight, by the block's class
SkipNumel(cls, c, ns, lmax) ==
    IF cls = Residual THEN c * ns * c ELSE c * (lmax + 1) * ns * c

MkInteraction(sgn, i, cls, c, ns, a) ==
    [cls |-> cls,
     linear_up |-> MkTensor(sgn * (10 * i + 1), <<c * c>>),
     avg_num_neighbors |-> sgn * (10 * i + 2),
     conv_tp_weights |->
        [j \in 1..NumConvLayers |->
            MkTensor(sgn * (10 * i + 2 + j),
                     IF j = 1 THEN <<a.num_radial, 1>> ELSE <<1, 1>>)],
     linear |-> MkTensor(sgn * (10 * i + 7), <<c * c>>),
     skip_tp |-> MkTensor(sgn * (10 * i + 8), <<SkipNumel(cls, c, ns, a.lmax)>>)]

MkContraction(sgn, id, c, ns) ==
    [weights_max |-> MkTensor(sgn * id, <<ns, 1, c>>),
     weights |-> [k \in 1..NumWeights |-> MkTensor(sgn * (id + k), <<ns, 1, c>>)]]

MkProduct(sgn, i, c, ns, n) ==
    [contractions |-> [j \in 1..n |-> MkContraction(sgn, 40 + 20 * i + 3 * j, c, ns)],
     linear |-> MkTensor(sgn * (40 + 20 * i), <<c * c>>)]

\* a model with element list zs and architecture a; sgn = 1 gives the
\* foundation's values, sgn = -1 the freshly constructed target's, so that no
\* value of one model occurs in the other
MkModel(sgn, zs, a, r_max, has_scale_shift) ==
    LET c  == a.channels
        ns == Len(zs)
    IN  [r_max |-> r_max,
         atomic_numbers |-> zs,
         num_interactions |-> Len(a.classes),
         out_dim |-> a.num_radial,
         lmax |-> a.lmax,
         bessel_cls |-> a.bessel,
         node_embedding |-> MkTensor(sgn * 1, <<ns * c>>),
         bessel_weights |-> MkTensor(sgn * 2, <<a.num_radial>>),
         interactions |->
            [i \in 1..Len(a.classes) |-> MkInteraction(sgn, i, a.classes[i], c, ns, a)],
         products |->
            [i \in 1..NumProducts |->
                MkProduct(sgn, i, c, ns, IF i = 1 THEN a.ncontr ELSE 1)],
         readouts |-> [linear   |-> MkTensor(sgn * 91, <<c>>),
                       linear_1 |-> MkTensor(sgn * 92, <<c>>),
                       linear_2 |-> MkTensor(sgn * 93, <<c>>)],
         scale_shift |-> [none  |-> ~has_scale_shift,
                          scale |-> MkTensor(sgn * 94, <<>>),
                          shift |-> MkTensor(sgn * 95, <<>>)]]

----------------------------------------------------------------------------
(* load_foundations.  A run is [m, err]: the target model as mutated so far *)
(* and the exception raised ("none" while running).  Python evaluates the   *)
(* right-hand side of an assignment before it binds the attribute, so a     *)
(* statement that raises leaves its own attribute as it was and every       *)
(* earlier assignment in place.  Assigning a torch.nn.Parameter to a module *)
(* attribute (Module.__setattr__) registers the new parameter and checks    *)
(* no shape.                                                               *)

Run(m, err) == [m |-> m, err |-> err]

\* z_table = AtomicNumberTable([int(z) for z in model_foundations.atomic_numbers])
FoundationTable(mf) == mf.atomic_numbers

\* a channel count that forgets the division by the species count
NumChannelsFoundationUndivided(mf) == mf.node_embedding.shape[1]

\* model_foundations.node_embedding.linear.weight.shape[0] // num_species_foundations
NumChannelsFoundation(mf) ==
    mf.node_embedding.shape[1] \div Len(FoundationTable(mf))

\* a transplant that takes the block at the same position
IndicesWeightsByPosition(mf, tbl) == [t \in 1..Len(tbl) |-> t - 1]

\* indices_weights = [z_table.z_to_index(z) for z in new_z_table.zs]
IndicesWeights(mf, tbl) ==
    [t \in 1..Len(tbl) |-> z_to_index(FoundationTable(mf), tbl[t])]

\* an entry without the cutoff assertion
EntryErrorNoAssert(m, mf, tbl) ==
    IF Len(FoundationTable(mf)) = 0 THEN "ZeroDivisionError"
    ELSE IF \E t \in 1..Len(tbl) : z_to_index(FoundationTable(mf), tbl[t]) = -1
         THEN "ValueError"
    ELSE "none"

\* lines 224-235: what raises before the first assignment
EntryError(m, mf, tbl) ==
    IF mf.r_max # m.r_max THEN "AssertionError"
    ELSE IF Len(FoundationTable(mf)) = 0 THEN "ZeroDivisionError"
    ELSE IF \E t \in 1..Len(tbl) : z_to_index(FoundationTable(mf), tbl[t]) = -1
         THEN "ValueError"
    ELSE "none"

\* lines 236-243
NodeEmbeddingStep(r, mf, tbl) ==
    LET nsf == Len(FoundationTable(mf))
        ns  == Len(tbl)
        idx == IndicesWeights(mf, tbl)
    IN  IF r.err # "none" THEN r
        ELSE IF ~CanView2(mf.node_embedding, nsf) THEN Run(r.m, "RuntimeError")
        ELSE IF ns = 0 THEN Run(r.m, "ZeroDivisionError")
        ELSE Run([r.m EXCEPT !.node_embedding =
                     DivSqrt(Flatten(IndexAxis(View2(mf.node_embedding, nsf), 1, idx)),
                             nsf, ns)],
                 "none")

\* lines 244-247
BesselStep(r, mf) ==
    IF r.err # "none" THEN r
    ELSE IF r.m.bessel_cls = BesselBasis
         THEN Run([r.m EXCEPT !.bessel_weights = mf.bessel_weights], "none")
    ELSE r

\* lines 256-277: layer0 sliced to the target's radial dimension, the others whole
ConvLayer(mf, i, j, num_radial) ==
    IF j = 1 THEN SliceRows(mf.interactions[i].conv_tp_weights[j], num_radial)
    ELSE mf.interactions[i].conv_tp_weights[j]

\* lines 282-309: the shape skip_tp.weight is reshaped to, and the species axis
SkipShape(cls, cf, nsf, max_ell) ==
    IF cls = Residual THEN <<cf, nsf, cf>> ELSE <<cf, max_ell + 1, nsf, cf>>

\* a species axis chosen without looking at the block class
SkipAxisResidualOnly(cls) == 2

SkipAxis(cls) == IF cls = Residual THEN 2 ELSE 3

\* lines 250-309: one pass of the loop over the interaction blocks (i is 1-based)
InteractionStep(r, mf, tbl, i) ==
    LET nsf == Len(FoundationTable(mf))
        ns  == Len(tbl)
        cf  == NumChannelsFoundation(mf)
        idx == IndicesWeights(mf, tbl)
        cls == r.m.interactions[i].cls
        shp == SkipShape(cls, cf, nsf, r.m.lmax)
        m1  == [r.m EXCEPT
                  !.interactions[i].linear_up = mf.interactions[i].linear_up,
                  !.interactions[i].avg_num_neighbors =
                        mf.interactions[i].avg_num_neighbors,
                  !.interactions[i].conv_tp_weights =
                        [j \in 1..NumConvLayers |-> ConvLayer(mf, i, j, r.m.out_dim)],
                  !.interactions[i].linear = mf.interactions[i].linear]
    IN  IF r.err # "none" THEN r
        ELSE IF i > Len(mf.interactions) THEN Run(r.m, "IndexError")
        ELSE IF ~CanReshape(mf.interactions[i].skip_tp, shp) THEN Run(m1, "RuntimeError")
        ELSE Run([m1 EXCEPT !.interactions[i].skip_tp =
                     DivSqrt(Flatten(IndexAxis(Reshape(mf.interactions[i].skip_tp, shp),
                                               SkipAxis(cls), idx)),
                             nsf, ns)],
                 "none")

\* line 249: for i in range(int(model.num_interactions))
RECURSIVE InteractionsLoop(_, _, _, _)
InteractionsLoop(r, mf, tbl, i) ==
    IF i > r.m.num_interactions THEN r
    ELSE InteractionsLoop(InteractionStep(r, mf, tbl, i), mf, tbl, i + 1)

\* lines 314-331: one contraction (i, j 1-based)
ContractionStep(r, mf, tbl, i, j) ==
    LET idx == IndicesWeights(mf, tbl)
        src == mf.products[i].contractions[j]
    IN  IF r.err # "none" THEN r
        ELSE IF j > Len(mf.products[i].contractions)
                \/ j > Len(r.m.products[i].contractions) THEN Run(r.m, "IndexError")
        ELSE Run([r.m EXCEPT
                    !.products[i].contractions[j].weights_max =
                        IndexAxis(src.weights_max, 1, idx),
                    !.products[i].contractions[j].weights =
                        [k \in 1..NumWeights |-> IndexAxis(src.weights[k], 1, idx)]],
                 "none")

RECURSIVE ContractionsLoop(_, _, _, _, _, _)
ContractionsLoop(r, mf, tbl, i, j, max_range) ==
    IF j > max_range THEN r
    ELSE ContractionsLoop(ContractionStep(r, mf, tbl, i, j), mf, tbl, i, j + 1, max_range)

\* lines 311-335: one products module
ProductStep(r, mf, tbl, i, maxL) ==
    LET max_range == IF i = 1 THEN maxL + 1 ELSE 1
        r1 == ContractionsLoop(r, mf, tbl, i, 1, max_range)
    IN  IF r1.err # "none" THEN r1
        ELSE Run([r1.m EXCEPT !.products[i].linear = mf.products[i].linear], "none")

RECURSIVE ProductsLoop(_, _, _, _, _)
ProductsLoop(r, mf, tbl, i, maxL) ==
    IF i > NumProducts THEN r
    ELSE ProductsLoop(ProductStep(r, mf, tbl, i, maxL), mf, tbl, i + 1, maxL)

\* lines 337-349
ReadoutStep(r, mf, lr) ==
    IF r.err # "none" \/ ~lr THEN r
    ELSE Run([r.m EXCEPT !.readouts = mf.readouts], "none")

\* a scale/shift copy with the shift gated by use_scale
ScaleShiftStepOneFlag(r, mf, uscale, ushift) ==
    IF r.err # "none" \/ mf.scale_shift.none THEN r
    ELSE Run([r.m EXCEPT
                !.scale_shift.scale =
                    IF uscale THEN mf.scale_shift.scale ELSE r.m.scale_shift.scale,
                !.scale_shift.shift =
                    IF uscale THEN mf.scale_shift.shift ELSE r.m.scale_shift.shift],
             "none")

\* lines 350-354
ScaleShiftStep(r, mf, uscale, ushift) ==
    IF r.err # "none" \/ mf.scale_shift.none THEN r
    ELSE Run([r.m EXCEPT
                !.scale_shift.scale =
                    IF uscale THEN mf.scale_shift.scale ELSE r.m.scale_shift.scale,
                !.scale_shift.shift =
                    IF ushift THEN mf.scale_shift.shift ELSE r.m.scale_shift.shift],
             "none")

\* a transplant whose scale assignment is written the wrong way round
load_foundations_swapped(m, mf, tbl, lr, ushift, uscale, maxL) ==
    LET r0 == Run(m, EntryError(m, mf, tbl))
        r1 == NodeEmbeddingStep(r0, mf, tbl)
        r2 == BesselStep(r1, mf)
        r3 == InteractionsLoop(r2, mf, tbl, 1)
        r4 == ProductsLoop(r3, mf, tbl, 1, maxL)
        r5 == ReadoutStep(r4, mf, lr)
    IN  [m |-> r5.m,
         mf |-> IF r5.err = "none" /\ uscale
                THEN [mf EXCEPT !.scale_shift.scale = m.scale_shift.scale] ELSE mf,
         err |-> r5.err,
         ret |-> IF r5.err = "none" THEN "model" ELSE "nothing"]

\* the whole body: the two objects as the call leaves them (the foundation is
\* only read: every statement binds an attribute of `model`), what it raised,
\* and the object it returns (line 355: return model)
load_foundations(m, mf, tbl, lr, ushift, uscale, maxL) ==
    LET r0 == Run(m, EntryError(m, mf, tbl))
        r1 == NodeEmbeddingStep(r0, mf, tbl)
        r2 == BesselStep(r1, mf)
        r3 == InteractionsLoop(r2, mf, tbl, 1)
        r4 == ProductsLoop(r3, mf, tbl, 1, maxL)
        r5 == ReadoutStep(r4, mf, lr)
        r6 == ScaleShiftStep(r5, mf, uscale, ushift)
    IN  [m |-> r6.m, mf |-> mf, err |-> r6.err,
         ret |-> IF r6.err = "none" THEN "model" ELSE "nothing"]

----------------------------------------------------------------------------
(* The transplant as a state machine: a call with arguments drawn from     *)
(* bounded sets, then its outcome.                                         *)

\* the atomic numbers a table may hold
Zs == {1, 2, 3}
Tables == InjectiveSeqs(Zs, MaxSpecies)

\* the pretrained model: two interaction blocks, the first without and the
\* second with a residual connection, two contractions in products[0]
FoundationArch ==
    [channels |-> 2, lmax |-> 1, num_radial |-> 2,
     classes |-> <<NonResidual, Residual>>, bessel |-> BesselBasis, ncontr |-> 2]

\* the keyword defaults: load_readout=False, use_shift=False, use_scale=True
DefaultFlags == <<FALSE, FALSE, TRUE>>
AllFlags == BOOLEAN \X BOOLEAN \X BOOLEAN

\* target architectures of the same family as the foundation
SameArchs == {FoundationArch}

\* target architectures that differ from the foundation's in channel count,
\* spherical-harmonics order, radial dimension, block classes or basis class
VariedArchs ==
    [channels : {1, 2}, lmax : {1}, num_radial : {1, 2},
     classes : [1..2 -> {Residual, NonResidual, OtherBlock}],
     bessel : {BesselBasis, GaussianBasis}, ncontr : {2}]

\* the parts of the state a specification leaves out
lfIdle == /\ model = <<>> /\ model_foundations = <<>> /\ table = <<>>
          /\ load_readout = FALSE /\ use_shift = FALSE /\ use_scale = FALSE
          /\ max_L = 0 /\ pc = "idle" /\ exc = "none" /\ ret = "nothing"
ztIdle == /\ zs_in = <<>> /\ z_pos = 0 /\ z_set = {} /\ z_table = <<>> /\ z_pc = "idle"
mlIdle == /\ fs = [dirs |-> {}, files |-> <<>>] /\ ml_calls = <<>>
lgIdle == /\ handlers = <<>> /\ filters = <<>> /\ level = 0 /\ stdout = <<>>
          /\ logfiles = <<>> /\ n_setup = 0 /\ records = <<>>

InitTransplant(Archs, RMaxes, Flags, MaxLs, ScaleShifts) ==
    /\ \E fzs \in Tables \ {<<>>}, hss \in ScaleShifts :
          model_foundations = MkModel(1, fzs, FoundationArch, 1, hss)
    /\ table \in Tables
    /\ \E a \in Archs, rm \in RMaxes : model = MkModel(-1, table, a, rm, TRUE)
    /\ \E f \in Flags : load_readout = f[1] /\ use_shift = f[2] /\ use_scale = f[3]
    /\ max_L \in MaxLs
    /\ pc = "call" /\ exc = "none" /\ ret = "nothing"

\* the call load_foundations(model, model_foundations, table, ...)
LoadFoundations ==
    /\ pc = "call"
    /\ LET res == load_foundations(model, model_foundations, table,
                                   load_readout, use_shift, use_scale, max_L)
       IN  /\ model' = res.m
           /\ model_foundations' = res.mf
           /\ exc' = res.err
           /\ ret' = res.ret
           /\ pc' = IF res.err = "none" THEN "returned" ELSE "raised"
    /\ UNCHANGED <<table, load_readout, use_shift, use_scale, max_L>>
    /\ UNCHANGED <<ztVars, mlVars, lgVars>>

Init == /\ InitTransplant(SameArchs, {1, 2}, AllFlags, {0, 1, 2}, BOOLEAN)
        /\ ztIdle /\ mlIdle /\ lgIdle

Next == LoadFoundations

Spec == Init /\ [][Next]_vars

InitArch == /\ InitTransplant(VariedArchs, {1}, {DefaultFlags, <<TRUE, TRUE, TRUE>>}, {1}, {TRUE})
            /\ ztIdle /\ mlIdle /\ lgIdle

SpecArch == InitArch /\ [][Next]_vars

----------------------------------------------------------------------------
(* get_atomic_number_table_from_zs, one loop pass per step *)

\* the integers an input may hold
ZInputs == {-1, 0, 1, 2, 3}

InitTable ==
    /\ zs_in \in UNION {[1..n -> ZInputs] : n \in 0..MaxLen}
    /\ z_pos = 0 /\ z_set = {} /\ z_table = <<>> /\ z_pc = "loop"
    /\ lfIdle /\ mlIdle /\ lgIdle

\* lines 98-99: for z in zs: z_set.add(z)
AddZ ==
    /\ z_pc = "loop" /\ z_pos < Len(zs_in)
    /\ z_set' = z_set \cup {zs_in[z_pos + 1]}
    /\ z_pos' = z_pos + 1
    /\ UNCHANGED <<zs_in, z_table, z_pc>>
    /\ UNCHANGED <<lfVars, mlVars, lgVars>>

\* line 100: return AtomicNumberTable(sorted(list(z_set)))
MakeTable ==
    /\ z_pc = "loop" /\ z_pos = Len(zs_in)
    /\ z_table' = SortedList(z_set)
    /\ z_pc' = "done"
    /\ UNCHANGED <<zs_in, z_pos, z_set>>
    /\ UNCHANGED <<lfVars, mlVars, lgVars>>

NextTable == AddZ \/ MakeTable

SpecTable == InitTable /\ [][NextTable]_vars

----------------------------------------------------------------------------
(* MetricsLogger.  Text is a sequence of one-character strings.  A value   *)
(* of the logged dict is [type, n, s]: a Python int or a numpy integer n,  *)
(* a str s, or an object the encoder does not know.                        *)

\* os.path.join(a, b) for a relative b
PathJoin(a, b) ==
    IF a = <<>> THEN b
    ELSE IF a[Len(a)] = "/" THEN a \o b
    ELSE a \o <<"/">> \o b

\* MetricsLogger.__init__
MetricsLogger(directory, tag) ==
    LET filename == tag \o <<".", "t", "x", "t">>
    IN  [directory |-> directory, filename |-> filename,
         path |-> PathJoin(directory, filename)]

Digit(n) == CHOOSE c \in {"0", "1", "2", "3", "4", "5", "6", "7", "8", "9"} :
               c = <<"0", "1", "2", "3", "4", "5", "6", "7", "8", "9">>[n + 1]

\* the decimal text of an integer
RECURSIVE NatText(_)
NatText(n) == IF n < 10 THEN <<Digit(n)>> ELSE NatText(n \div 10) \o <<Digit(n % 10)>>

IntText(n) == IF n < 0 THEN <<"-">> \o NatText(-n) ELSE NatText(n)

\* a string encoder that leaves control characters as they are
RECURSIVE EscapeQuotesOnly(_)
EscapeQuotesOnly(str) ==
    IF str = <<>> THEN <<>>
    ELSE (IF Head(str) = "\"" THEN <<"\\", "\"">>
          ELSE IF Head(str) = "\\" THEN <<"\\", "\\">>
          ELSE <<Head(str)>>) \o EscapeQuotesOnly(Tail(str))

\* the JSON encoder's escaping of a string's characters
RECURSIVE Escape(_)
Escape(str) ==
    IF str = <<>> THEN <<>>
    ELSE (IF Head(str) = "\"" THEN <<"\\", "\"">>
          ELSE IF Head(str) = "\\" THEN <<"\\", "\\">>
          ELSE IF Head(str) = "\n" THEN <<"\\", "n">>
          ELSE <<Head(str)>>) \o Escape(Tail(str))

\* UniversalEncoder: what a value can be encoded at all (default() hands an
\* unknown object to json.JSONEncoder.default, which raises TypeError)
Encodable(v) == v.type \in {"int", "str", "np.integer"}

\* one value; a numpy integer goes through default() and int(o)
EncodeValue(v) ==
    IF v.type = "str" THEN <<"\"">> \o Escape(v.s) \o <<"\"">>
    ELSE IntText(v.n)

RECURSIVE EncodeItems(_)
EncodeItems(d) ==
    IF d = <<>> THEN <<>>
    ELSE <<"\"">> \o Escape(d[1].key) \o <<"\"", ":", " ">> \o EncodeValue(d[1].value)
         \o (IF Len(d) > 1 THEN <<",", " ">> ELSE <<>>) \o EncodeItems(Tail(d))

\* json.dumps(d, cls=UniversalEncoder) of a dict given as its items in order
Dumps(d) == <<"{">> \o EncodeItems(d) \o <<"}">>

CanDump(d) == \A i \in 1..Len(d) : Encodable(d[i].value)

\* open(path, mode="w"): the file emptied
OpenTruncate(files, path) == <<>>

\* open(path, mode="a"): the file as it is, created empty when absent
OpenAppend(files, path) == IF path \in DOMAIN files THEN files[path] ELSE <<>>

IntValue(n) == [type |-> "int", n |-> n, s |-> <<>>]
NpValue(n) == [type |-> "np.integer", n |-> n, s |-> <<>>]
StrValue(str) == [type |-> "str", n |-> 0, s |-> str]
ObjectValue == [type |-> "object", n |-> 0, s |-> <<>>]

Values == {IntValue(7), IntValue(-12), NpValue(5),
           StrValue(<<"a", "\n", "\"">>), ObjectValue}
Dicts == {<<>>} \cup {<<[key |-> <<"k">>, value |-> v]>> : v \in Values}
Loggers == {MetricsLogger(<<"r">>, tag) : tag \in {<<"x">>, <<"y">>}}

InitMetrics ==
    /\ fs = [dirs |-> {}, files |-> <<>>] /\ ml_calls = <<>>
    /\ lfIdle /\ ztIdle /\ lgIdle

\* MetricsLogger.log(d) on logger lg: the file is opened (and so created)
\* before json.dumps runs, and a dict that cannot be encoded raises before
\* anything is written
Log(lg, d) ==
    /\ Len(ml_calls) < MaxCalls
    /\ LET old == OpenAppend(fs.files, lg.path)
           new == IF CanDump(d) THEN old \o Dumps(d) \o <<"\n">> ELSE old
       IN  fs' = [dirs  |-> fs.dirs \cup {lg.directory},
                  files |-> [q \in DOMAIN fs.files \cup {lg.path} |->
                                IF q = lg.path THEN new ELSE fs.files[q]]]
    /\ ml_calls' = Append(ml_calls, [path |-> lg.path, d |-> d, ok |-> CanDump(d)])
    /\ UNCHANGED <<lfVars, ztVars, lgVars>>

NextMetrics == \E lg \in Loggers, d \in Dicts : Log(lg, d)

SpecMetrics == InitMetrics /\ [][NextMetrics]_vars

----------------------------------------------------------------------------
(* setup_logger and the root logger it configures.  An optional argument   *)
(* is <<>> for None and <<v>> for a value.  The root logger keeps a list   *)
(* of handlers and a list of filters; each filter is the rank its lambda   *)
(* closed over.  stdout and the log files hold the numbers of the records  *)
(* written to them; records lists the level of every logging call made.    *)

DEBUG == 10
INFO == 20
\* the level of the root logger before anyone sets it
WARNING == 30

StreamHandler == [kind |-> "stream", path |-> <<>>]
FileHandler(path) == [kind |-> "file", path |-> path]

\* a filter list of which only the newest filter is asked
PassesNewestFilter(fl) == fl = <<>> \/ fl[Len(fl)] = 0

\* Filterer.filter with the filters of line 68: a record passes when every
\* lambda _: (rank == 0) added so far says so
PassesFilters(fl) == \A i \in 1..Len(fl) : fl[i] = 0

\* lines 64-66 and 70-76: the handlers after one more call
HandlersAfterSetup(hs, tag, directory) ==
    IF directory # <<>> /\ tag # <<>>
    THEN hs \o <<StreamHandler,
                 FileHandler(PathJoin(directory[1], tag[1] \o <<".", "l", "o", "g">>))>>
    ELSE Append(hs, StreamHandler)

\* the paths the file handlers of hs have opened
FilesOpened(hs) == {hs[i].path : i \in {j \in 1..Len(hs) : hs[j].kind = "file"}}

InitLogger ==
    /\ handlers = <<>> /\ filters = <<>> /\ level = WARNING /\ stdout = <<>>
    /\ logfiles = <<>> /\ n_setup = 0 /\ records = <<>>
    /\ lfIdle /\ ztIdle /\ mlIdle

\* setup_logger(level, tag, directory, rank); logging.FileHandler opens its
\* file for appending as it is constructed
SetupLogger(lvl, tag, directory, rank) ==
    /\ n_setup < MaxSetups
    /\ level' = lvl
    /\ handlers' = HandlersAfterSetup(handlers, tag, directory)
    /\ filters' = Append(filters, rank)
    /\ logfiles' =
          [q \in DOMAIN logfiles \cup FilesOpened(handlers') |->
              IF q \in DOMAIN logfiles THEN logfiles[q] ELSE <<>>]
    /\ n_setup' = n_setup + 1
    /\ UNCHANGED <<stdout, records>>
    /\ UNCHANGED <<lfVars, ztVars, mlVars>>

\* the record numbers handler list hs writes to the sink (kind, path)
Deliveries(hs, kind, path, id) ==
    LET mine == SelectSeq(hs, LAMBDA h : h.kind = kind /\ h.path = path)
    IN  [i \in 1..Len(mine) |-> id]

\* a logging call on the root logger (logging.debug, logging.info): the
\* record is made when the level is enabled, dropped by Logger.handle unless
\* the filters pass, and else emitted by every handler in turn
LogRecord(lvl) ==
    /\ Len(records) < MaxRecords
    /\ records' = Append(records, lvl)
    /\ LET id == Len(records) + 1
           hs == IF lvl >= level /\ PassesFilters(filters) THEN handlers ELSE <<>>
       IN  /\ stdout' = stdout \o Deliveries(hs, "stream", <<>>, id)
           /\ logfiles' = [q \in DOMAIN logfiles |->
                              logfiles[q] \o Deliveries(hs, "file", q, id)]
    /\ UNCHANGED <<handlers, filters, level, n_setup>>
    /\ UNCHANGED <<lfVars, ztVars, mlVars>>

Optional(S) == {<<>>} \cup {<<x>> : x \in S}

NextLogger ==
    \/ \E lvl \in {DEBUG, INFO}, tag \in Optional({<<"t">>}),
          directory \in Optional({<<"d">>}), rank \in {0, 1} :
          SetupLogger(lvl, tag, directory, rank)
    \/ \E lvl \in {DEBUG, INFO} : LogRecord(lvl)

SpecLogger == InitLogger /\ [][NextLogger]_vars

----------------------------------------------------------------------------
(* Properties of load_foundations *)

\* a step of the call
Called == pc = "call" /\ pc' # "call"

\* the 1-based position in the foundation's element list of atomic number z
PosIn(fz, z) == CHOOSE i \in 1..Len(fz) : fz[i] = z

InTable(fz, z) == \E i \in 1..Len(fz) : fz[i] = z

SomeAbsent(tbl, fz) == \E t \in 1..Len(tbl) : ~InTable(fz, tbl[t])

IsReordering(tbl, fz) ==
    /\ Len(tbl) = Len(fz)
    /\ \A t \in 1..Len(tbl) : InTable(fz, tbl[t])
    /\ tbl # fz

\* C1: after a call that returns, block t of the target's node embedding
\* holds the values of the foundation's block for the species with the atomic
\* number of target element t, every value divided by the same factor
\* sqrt(nsf / ns) (nsf, ns the two species counts), which is 1 when nsf = ns:
\* then the blocks are the foundation's own, permuted.
C1_NodeEmbeddingBySpecies ==
    pc = "returned" =>
        LET fz  == model_foundations.atomic_numbers
            nsf == Len(fz)
            ns  == Len(table)
            cf  == model_foundations.node_embedding.shape[1] \div nsf
        IN  /\ model.node_embedding.shape = <<ns * cf>>
            /\ \A t \in 1..ns, c \in 1..cf :
                  LET e == model.node_embedding.data[(t - 1) * cf + c]
                      f == model_foundations.node_embedding.data
                               [(PosIn(fz, table[t]) - 1) * cf + c]
                  IN  /\ e[1] = f[1]
                      /\ e[2] * ns = e[3] * nsf
                      /\ (nsf = ns => e = f)

\* C1 witness: a returned call whose table strictly reorders the foundation's
C1_Witness ==
    /\ pc = "returned"
    /\ IsReordering(table, model_foundations.atomic_numbers)
    /\ model.node_embedding.data[1] = model_foundations.node_embedding.data[3]

\* C3: no step changes the foundation model, whatever the flags and whether
\* the call returns or raises; a call that returns returns the target object.
C3_FoundationReadOnly ==
    [][/\ model_foundations' = model_foundations
       /\ (pc' = "returned" => ret' = "model")
       /\ (pc' = "raised" => ret' = "nothing")]_vars

\* C3 witness: a call that raised half-way, the target's first interaction
\* block already holding the foundation's weights
C3_Witness ==
    /\ pc = "raised" /\ exc = "IndexError"
    /\ model.interactions[1].linear_up = model_foundations.interactions[1].linear_up

\* C4: a call with differing cutoff radii, or with a target element that the
\* foundation's atomic numbers lack, raises and leaves the target as passed in.
C4_EntryFailureLeavesTarget ==
    [][(/\ Called
        /\ \/ model.r_max # model_foundations.r_max
           \/ SomeAbsent(table, model_foundations.atomic_numbers))
       => (pc' = "raised" /\ model' = model)]_vars

\* C4 witness: a call that raised on an absent element, the cutoffs equal
C4_Witness ==
    /\ pc = "raised" /\ exc = "ValueError"
    /\ model.r_max = model_foundations.r_max
    /\ SomeAbsent(table, model_foundations.atomic_numbers)

\* C5 as stated: each optional copy happens iff its own flag is true.
C5_FlagsAloneDecide ==
    [][(Called /\ pc' = "returned") =>
        /\ model'.readouts =
              IF load_readout THEN model_foundations.readouts ELSE model.readouts
        /\ model'.scale_shift.scale =
              IF use_scale THEN model_foundations.scale_shift.scale
              ELSE model.scale_shift.scale
        /\ model'.scale_shift.shift =
              IF use_shift THEN model_foundations.scale_shift.shift
              ELSE model.scale_shift.shift]_vars

\* C5 amended: the readout weights are copied iff load_readout; the scale iff
\* use_scale and the foundation has a scale_shift module (it is not None); the
\* shift iff use_shift and the foundation has a scale_shift module; what is not
\* copied keeps the target's value.
C5_FlagsAndScaleShiftPresent ==
    [][(Called /\ pc' = "returned") =>
        /\ model'.readouts =
              IF load_readout THEN model_foundations.readouts ELSE model.readouts
        /\ model'.scale_shift.scale =
              IF use_scale /\ ~model_foundations.scale_shift.none
              THEN model_foundations.scale_shift.scale
              ELSE model.scale_shift.scale
        /\ model'.scale_shift.shift =
              IF use_shift /\ ~model_foundations.scale_shift.none
              THEN model_foundations.scale_shift.shift
              ELSE model.scale_shift.shift]_vars

\* C5 witness: a returned call that copied the shift and left the scale and
\* the readouts alone
C5_Witness ==
    /\ pc = "returned" /\ use_shift /\ ~use_scale /\ ~load_readout
    /\ model.scale_shift.shift = model_foundations.scale_shift.shift
    /\ model.scale_shift.scale # model_foundations.scale_shift.scale
    /\ model.readouts # model_foundations.readouts

\* the transplanted parts that never depend on the radial dimension
EqualExceptFirstConvLayer(m, mf, maxL, lr, uscale, ushift) ==
    /\ IndicesWeights(mf, mf.atomic_numbers) = [t \in 1..Len(mf.atomic_numbers) |-> t - 1]
    /\ m.node_embedding = mf.node_embedding
    /\ (m.bessel_cls = BesselBasis => m.bessel_weights = mf.bessel_weights)
    /\ \A i \in 1..m.num_interactions :
          /\ m.interactions[i].linear_up = mf.interactions[i].linear_up
          /\ m.interactions[i].avg_num_neighbors = mf.interactions[i].avg_num_neighbors
          /\ \A j \in 2..NumConvLayers :
                m.interactions[i].conv_tp_weights[j] = mf.interactions[i].conv_tp_weights[j]
          /\ m.interactions[i].linear = mf.interactions[i].linear
          /\ m.interactions[i].skip_tp = mf.interactions[i].skip_tp
    /\ \A i \in 1..NumProducts :
          /\ m.products[i].linear = mf.products[i].linear
          /\ \A j \in 1..(IF i = 1 THEN maxL + 1 ELSE 1) :
                m.products[i].contractions[j] = mf.products[i].contractions[j]
    /\ (lr => m.readouts = mf.readouts)
    /\ (uscale /\ ~mf.scale_shift.none => m.scale_shift.scale = mf.scale_shift.scale)
    /\ (ushift /\ ~mf.scale_shift.none => m.scale_shift.shift = mf.scale_shift.shift)

\* C2 as stated: with the foundation's own table as target table, a call that
\* returns leaves every transplanted tensor equal to the foundation's.
C2_IdenticalTableIsIdentity ==
    (pc = "returned" /\ table = model_foundations.atomic_numbers) =>
        /\ EqualExceptFirstConvLayer(model, model_foundations, max_L,
                                     load_readout, use_scale, use_shift)
        /\ \A i \in 1..model.num_interactions :
              model.interactions[i].conv_tp_weights[1] =
                  model_foundations.interactions[i].conv_tp_weights[1]

\* C2 amended: with the foundation's own table as target table, a call that
\* returns has the identity as index mapping and rescale factor 1, and every
\* transplanted tensor equals the foundation's, except that the first
\* conv_tp_weights layer is the foundation's cut to its first out_dim rows
\* (the whole layer when the target's radial dimension is not smaller).
C2_IdenticalTableUpToRadialSlice ==
    (pc = "returned" /\ table = model_foundations.atomic_numbers) =>
        /\ EqualExceptFirstConvLayer(model, model_foundations, max_L,
                                     load_readout, use_scale, use_shift)
        /\ \A i \in 1..model.num_interactions :
              LET new  == model.interactions[i].conv_tp_weights[1]
                  old  == model_foundations.interactions[i].conv_tp_weights[1]
                  rows == Min(model.out_dim, old.shape[1])
              IN  /\ new.shape = <<rows, old.shape[2]>>
                  /\ \A k \in 1..(rows * old.shape[2]) : new.data[k] = old.data[k]
                  /\ Len(new.data) = rows * old.shape[2]
                  /\ (model.out_dim >= old.shape[1] => new = old)

\* C2 witness: a returned call on the foundation's own two-element table into
\* a target with a smaller radial dimension
C2_Witness ==
    /\ pc = "returned" /\ table = model_foundations.atomic_numbers /\ Len(table) = 2
    /\ model.out_dim < model_foundations.out_dim
    /\ model.interactions[2].skip_tp = model_foundations.interactions[2].skip_tp

\* what makes a call raise: the entry checks, an empty target table, a skip
\* weight of the foundation whose size does not fit the layout chosen by the
\* target's block class and max_ell, a contraction index past the list
RaiseCondition ==
    LET fz  == model_foundations.atomic_numbers
        nsf == Len(fz)
        cf  == model_foundations.node_embedding.shape[1] \div nsf
    IN  \/ model.r_max # model_foundations.r_max
        \/ SomeAbsent(table, fz)
        \/ Len(table) = 0
        \/ \E i \in 1..model.num_interactions :
              Numel(model_foundations.interactions[i].skip_tp) #
                 cf * cf * nsf *
                 (IF model.interactions[i].cls = Residual THEN 1 ELSE model.lmax + 1)
        \/ max_L + 1 > Len(model_foundations.products[1].contractions)

\* the skip weight the non-residual layout (c, max_ell + 1, species, c) gives
NonResidualSkip(new, old, fz, tbl, cf, lmax) ==
    LET nsf == Len(fz)
        ns  == Len(tbl)
    IN  /\ new.shape = <<cf * (lmax + 1) * ns * cf>>
        /\ \A a \in 0..(cf - 1), l \in 0..lmax, t \in 0..(ns - 1), b \in 0..(cf - 1) :
              LET e == new.data[((a * (lmax + 1) + l) * ns + t) * cf + b + 1]
                  f == old.data[((a * (lmax + 1) + l) * nsf
                                  + PosIn(fz, tbl[t + 1]) - 1) * cf + b + 1]
              IN  e[1] = f[1] /\ e[2] * ns = e[3] * nsf

\* C6 as stated: an unsupported radial basis leaves the radial-basis weights
\* alone, and an interaction block that is neither the residual nor the
\* non-residual variant keeps its skip weight, the call not raising there.
C6_UnsupportedSkipped ==
    [][Called =>
        /\ (model.bessel_cls # BesselBasis =>
               model'.bessel_weights = model.bessel_weights)
        /\ \A i \in 1..model.num_interactions :
              model.interactions[i].cls \notin {Residual, NonResidual} =>
                 model'.interactions[i].skip_tp = model.interactions[i].skip_tp]_vars

\* C6 amended: a radial basis that is not BesselBasis is skipped silently (its
\* weights stay, and whether the call raises does not depend on the basis);
\* an interaction block that is not the residual variant, an unsupported one
\* included, is not skipped: a call that returns has replaced its skip weight
\* by the foundation's, re-indexed in the non-residual layout and rescaled.
C6_OnlyBasisSkipped ==
    [][Called =>
        /\ (model.bessel_cls # BesselBasis =>
               model'.bessel_weights = model.bessel_weights)
        /\ (pc' = "raised" <=> RaiseCondition)
        /\ (pc' = "returned" =>
              \A i \in 1..model.num_interactions :
                 model.interactions[i].cls # Residual =>
                    NonResidualSkip(model'.interactions[i].skip_tp,
                                    model_foundations.interactions[i].skip_tp,
                                    model_foundations.atomic_numbers, table,
                                    model_foundations.node_embedding.shape[1]
                                        \div Len(model_foundations.atomic_numbers),
                                    model.lmax))]_vars

\* C6 witness: a returned call on a target with a Gaussian basis and an
\* unsupported first block: the basis weights are still the target's, the
\* block's skip weight is the foundation's
C6_Witness ==
    /\ pc = "returned"
    /\ model.bessel_cls = GaussianBasis /\ model.bessel_weights.data[1][1] < 0
    /\ model.interactions[1].cls = OtherBlock
    /\ model.interactions[1].skip_tp.data[1][1] > 0

\* some weight that is copied whole differs in shape between the two models
ShapeMismatch ==
    \E i \in 1..model.num_interactions :
        \/ model.interactions[i].linear_up.shape #
              model_foundations.interactions[i].linear_up.shape
        \/ model.interactions[i].linear.shape #
              model_foundations.interactions[i].linear.shape

\* C7 as stated: a call in which a copied foundation weight differs in shape
\* from the target weight it replaces raises.
C7_ShapeMismatchRaises ==
    [][(Called /\ ShapeMismatch) => pc' = "raised"]_vars

\* C7 amended: the shapes of the target's weights are never compared with the
\* foundation's: whether the call raises does not depend on them, and a call
\* that returns leaves every transplanted weight with the shape the
\* foundation gives it (the species axis sized by the target table), whatever
\* the shape of the weight it replaced.
C7_NoShapeCheck ==
    [][Called =>
        LET mf == model_foundations
            ns == Len(table)
            cf == mf.node_embedding.shape[1] \div Len(mf.atomic_numbers)
        IN  /\ (pc' = "raised" <=> RaiseCondition)
            /\ (pc' = "returned" =>
                  /\ model'.node_embedding.shape = <<ns * cf>>
                  /\ \A i \in 1..model.num_interactions :
                        /\ model'.interactions[i].linear_up.shape =
                              mf.interactions[i].linear_up.shape
                        /\ model'.interactions[i].linear.shape =
                              mf.interactions[i].linear.shape
                        /\ \A j \in 2..NumConvLayers :
                              model'.interactions[i].conv_tp_weights[j].shape =
                                 mf.interactions[i].conv_tp_weights[j].shape
                  /\ \A i \in 1..NumProducts :
                        /\ model'.products[i].linear.shape = mf.products[i].linear.shape
                        /\ model'.products[i].contractions[1].weights_max.shape =
                              <<ns, 1, cf>>)]_vars

\* C7 witness: a returned call into a target built with one channel: its
\* readout still has the target's shape, its interaction weights the
\* foundation's
C7_Witness ==
    /\ pc = "returned"
    /\ model.readouts.linear.shape = <<1>>
    /\ model.interactions[1].linear_up.shape = <<4>>
    /\ model_foundations.interactions[1].linear_up.shape = <<4>>

----------------------------------------------------------------------------
(* Properties of the element table *)

\* C8: the table built from any input is strictly ascending (so without
\* duplicates), holds exactly the distinct input values, and its two lookups
\* are inverse to each other on the table's values and on its indices.
C8_TableSortedBijective ==
    z_pc = "done" =>
        /\ \A i \in 1..(Len(z_table) - 1) : z_table[i] < z_table[i + 1]
        /\ {z_table[i] : i \in 1..Len(z_table)} = {zs_in[i] : i \in 1..Len(zs_in)}
        /\ \A i \in 1..Len(z_table) :
              index_to_z(z_table, z_to_index(z_table, z_table[i])) = z_table[i]
        /\ \A i \in 0..(Len(z_table) - 1) :
              z_to_index(z_table, index_to_z(z_table, i)) = i

\* C8 witness: a table built from an unsorted input with a repeated value
C8_Witness ==
    /\ z_pc = "done" /\ Len(zs_in) = 3 /\ Len(z_table) = 2
    /\ zs_in[1] > zs_in[2] /\ zs_in[3] = zs_in[1]

----------------------------------------------------------------------------
(* Properties of the metrics file.  A small JSON reader, written from the  *)
(* grammar and not from the encoder, decides what a line parses to.        *)

Fail == [ok |-> FALSE, val |-> <<>>, next |-> 0]

\* the characters of a string literal from position i (after the opening quote)
RECURSIVE ReadChars(_, _, _)
ReadChars(txt, i, acc) ==
    IF i > Len(txt) THEN Fail
    ELSE IF txt[i] = "\"" THEN [ok |-> TRUE, val |-> acc, next |-> i + 1]
    ELSE IF txt[i] = "\n" THEN Fail
    ELSE IF txt[i] = "\\"
         THEN IF i + 1 > Len(txt) THEN Fail
              ELSE IF txt[i + 1] = "n" THEN ReadChars(txt, i + 2, Append(acc, "\n"))
              ELSE IF txt[i + 1] \in {"\"", "\\"}
                   THEN ReadChars(txt, i + 2, Append(acc, txt[i + 1]))
              ELSE Fail
    ELSE ReadChars(txt, i + 1, Append(acc, txt[i]))

ReadString(txt, i) ==
    IF i <= Len(txt) /\ txt[i] = "\"" THEN ReadChars(txt, i + 1, <<>>) ELSE Fail

DigitValue(c) == CHOOSE n \in 0..9 : Digit(n) = c

IsDigit(c) == c \in {"0", "1", "2", "3", "4", "5", "6", "7", "8", "9"}

RECURSIVE ReadDigits(_, _, _)
ReadDigits(txt, i, acc) ==
    IF i <= Len(txt) /\ IsDigit(txt[i])
    THEN ReadDigits(txt, i + 1, acc * 10 + DigitValue(txt[i]))
    ELSE [ok |-> TRUE, val |-> acc, next |-> i]

ReadInt(txt, i) ==
    LET neg == i <= Len(txt) /\ txt[i] = "-"
        j   == IF neg THEN i + 1 ELSE i
        r   == ReadDigits(txt, j, 0)
    IN  IF j > Len(txt) \/ ~IsDigit(txt[j]) THEN Fail
        ELSE [ok |-> TRUE, val |-> IF neg THEN -r.val ELSE r.val, next |-> r.next]

\* a value: a string or an integer, as a [type, n, s] record
ReadValue(txt, i) ==
    IF i <= Len(txt) /\ txt[i] = "\""
    THEN LET r == ReadString(txt, i)
         IN  [ok |-> r.ok, val |-> StrValue(r.val), next |-> r.next]
    ELSE LET r == ReadInt(txt, i)
         IN  [ok |-> r.ok, val |-> IntValue(r.val), next |-> r.next]

\* the items of an object from position i, up to the closing brace at the end
RECURSIVE ReadItems(_, _, _)
ReadItems(txt, i, acc) ==
    LET k == ReadString(txt, i)
        v == ReadValue(txt, k.next + 2)
        item == [key |-> k.val, value |-> v.val]
    IN  IF ~k.ok \/ k.next + 1 > Len(txt) \/ txt[k.next] # ":" \/ txt[k.next + 1] # " "
        THEN [ok |-> FALSE, d |-> <<>>]
        ELSE IF ~v.ok \/ v.next > Len(txt) THEN [ok |-> FALSE, d |-> <<>>]
        ELSE IF txt[v.next] = "}"
             THEN [ok |-> v.next = Len(txt), d |-> Append(acc, item)]
        ELSE IF txt[v.next] = "," /\ v.next + 1 <= Len(txt) /\ txt[v.next + 1] = " "
             THEN ReadItems(txt, v.next + 2, Append(acc, item))
        ELSE [ok |-> FALSE, d |-> <<>>]

\* json.loads of one line holding an object
Loads(txt) ==
    IF Len(txt) < 2 \/ txt[1] # "{" THEN [ok |-> FALSE, d |-> <<>>]
    ELSE IF txt = <<"{", "}">> THEN [ok |-> TRUE, d |-> <<>>]
    ELSE ReadItems(txt, 2, <<>>)

\* the newline-terminated records of a file, and what follows the last newline
RECURSIVE SplitLines(_, _, _)
SplitLines(txt, cur, acc) ==
    IF txt = <<>> THEN [lines |-> acc, rest |-> cur]
    ELSE IF Head(txt) = "\n" THEN SplitLines(Tail(txt), <<>>, Append(acc, cur))
    ELSE SplitLines(Tail(txt), Append(cur, Head(txt)), acc)

FileLines(path) == SplitLines(fs.files[path], <<>>, <<>>)

\* what a logged dict reads back as: a numpy integer comes back as an int
ReadBack(d) ==
    [i \in 1..Len(d) |->
        [key |-> d[i].key,
         value |-> IF d[i].value.type = "np.integer" THEN IntValue(d[i].value.n)
                   ELSE d[i].value]]

CallsOn(path) == SelectSeq(ml_calls, LAMBDA c : c.path = path)
ReturnedCallsOn(path) == SelectSeq(ml_calls, LAMBDA c : c.path = path /\ c.ok)

IsPrefix(a, b) == Len(a) <= Len(b) /\ SubSeq(b, 1, Len(a)) = a

\* the file at path holds exactly the records of the given calls, in order
HoldsRecordsOf(path, calls) ==
    /\ FileLines(path).rest = <<>>
    /\ Len(FileLines(path).lines) = Len(calls)
    /\ \A i \in 1..Len(calls) :
          Loads(FileLines(path).lines[i]) = [ok |-> TRUE, d |-> ReadBack(calls[i].d)]

\* C9 as stated: after n log calls on a path its file holds exactly n
\* newline-terminated records, one per call and in call order.
C9_OneRecordPerCall ==
    \A c \in {ml_calls[i] : i \in 1..Len(ml_calls)} :
        c.path \in DOMAIN fs.files /\ HoldsRecordsOf(c.path, CallsOn(c.path))

\* C9 amended: the file holds exactly one newline-terminated record per log
\* call that returned, in call order, each parsing on its own to the dict
\* logged, and no call changes what the file already held; a call whose dict
\* the encoder cannot encode raises and appends nothing.
C9_OneRecordPerReturnedCall ==
    /\ [](\A c \in {ml_calls[i] : i \in 1..Len(ml_calls)} :
             /\ c.path \in DOMAIN fs.files
             /\ HoldsRecordsOf(c.path, ReturnedCallsOn(c.path)))
    /\ [][\A q \in DOMAIN fs.files :
             q \in DOMAIN fs'.files /\ IsPrefix(fs.files[q], fs'.files[q])]_vars

\* C9 witness: a file with two records, the first holding a string with a
\* newline in it, after three calls on it of which one raised
C9_Witness ==
    \E q \in DOMAIN fs.files :
        /\ Len(CallsOn(q)) = 3 /\ Len(ReturnedCallsOn(q)) = 2
        /\ Len(FileLines(q).lines) = 2
        /\ ReturnedCallsOn(q)[1].d = <<[key |-> <<"k">>, value |-> StrValue(<<"a", "\n", "\"">>)]>>

----------------------------------------------------------------------------
(* Properties of the logger *)

SetupStep == n_setup' = n_setup + 1
LogStep == Len(records') = Len(records) + 1

StreamHandlers(hs) == SelectSeq(hs, LAMBDA h : h.kind = "stream")
FileHandlersOn(hs, path) == SelectSeq(hs, LAMBDA h : h.kind = "file" /\ h.path = path)

Copies(n, id) == [i \in 1..n |-> id]

\* C10 as stated: after any setup_logger calls there is one console sink,
\* no record reaches a sink when the rank passed was non-zero, and with rank
\* 0 each record reaches the console and each configured file exactly once.
C10_ConfiguredOnce ==
    [][(LogStep /\ n_setup >= 1 /\ records'[Len(records')] >= level) =>
          LET id == Len(records')
          IN  /\ Len(StreamHandlers(handlers)) = 1
              /\ (\A i \in 1..Len(filters) : filters[i] # 0) =>
                    (stdout' = stdout /\ logfiles' = logfiles)
              /\ (\A i \in 1..Len(filters) : filters[i] = 0) =>
                    /\ stdout' = stdout \o <<id>>
                    /\ \A q \in DOMAIN logfiles :
                          logfiles'[q] = logfiles[q] \o
                             (IF FileHandlersOn(handlers, q) # <<>> THEN <<id>> ELSE <<>>)]_vars

\* C10 amended: every setup_logger call adds one console handler and one rank
\* filter to the root logger (and one file handler when directory and tag are
\* both given) and removes nothing, so after k calls there are k console
\* handlers; a record logged on the root logger at an enabled level reaches no
\* sink when some call so far passed a non-zero rank, and otherwise is written
\* once by every handler: k times to the console (once only after a single
\* call) and to a log file once per handler opened on it.
C10_OneHandlerPerCall ==
    [][/\ SetupStep =>
            /\ Len(StreamHandlers(handlers')) = n_setup'
            /\ Len(filters') = n_setup'
            /\ SubSeq(handlers', 1, Len(handlers)) = handlers
            /\ stdout' = stdout
            /\ \A q \in DOMAIN logfiles : q \in DOMAIN logfiles' /\ logfiles'[q] = logfiles[q]
       /\ LogStep =>
            LET id  == Len(records')
                on  == /\ records'[id] >= level
                       /\ \A i \in 1..Len(filters) : filters[i] = 0
            IN  /\ stdout' = stdout \o Copies(IF on THEN n_setup ELSE 0, id)
                /\ DOMAIN logfiles' = DOMAIN logfiles
                /\ \A q \in DOMAIN logfiles :
                      logfiles'[q] = logfiles[q] \o
                         Copies(IF on THEN Len(FileHandlersOn(handlers, q)) ELSE 0, id)]_vars

\* C10 witness: after two calls with rank 0, both with directory and tag, the
\* first record stands twice on the console and twice in the log file
C10_Witness ==
    /\ n_setup = 2 /\ filters = <<0, 0>> /\ Len(handlers) = 4
    /\ stdout = <<1, 1>>
    /\ \E q \in DOMAIN logfiles : logfiles[q] = <<1, 1>>

====
